---- MODULE Spec2Model ----
(***************************************************************************)
(* Event-sourcing engine of the coroutine visualizer front end.            *)
(*                                                                         *)
(* The hierarchy reducer (useEnhancedHierarchy.handleEvent) folds the      *)
(* stream of lifecycle events into a Map of coroutine id -> HierarchyNode. *)
(* A JavaScript Map iterates in insertion order and set() on a present key *)
(* keeps its position, so the Map is modelled as the sequence of its       *)
(* values in insertion order; every node is stored under its own id.       *)
(*                                                                         *)
(* Encoding of JavaScript values: null is the string "null", a missing     *)
(* (undefined) string field is "undefined", a missing numeric field is the *)
(* number NoNumber.                                                        *)
(*                                                                         *)
(* Four specifications share the reducer:                                  *)
(*   Spec      the reducer alone: any event may be handed to handleEvent;  *)
(*   WfcSpec   the reducer fed with the events of a parent that waits for  *)
(*             its children (created, body-completed, completed,           *)
(*             JobStateChanged(isCompleted)), without a bound on the run;  *)
(*   HookSpec  useEventStream feeding useEnhancedHierarchy, as the example *)
(*             components compose them (the effect replays the whole       *)
(*             `events` array on every change of the array);               *)
(*   HeapSpec  the reducer at the level of JavaScript objects: Map, node   *)
(*             and array objects with identity, and a reader that keeps    *)
(*             the reference to a Map it was given.                        *)
(* Three more apply the pure functions to their inputs:                    *)
(*   NormalizerSpec  normalizeEvent called with any value;                 *)
(*   TimelineSpec    generateMockCoroutineTimeline and useTimelineStats;   *)
(*   ProjectorSpec   hierarchyListToTree, buildCoroutineTree,              *)
(*                   useHierarchyTree, hierarchyTreeToList and             *)
(*                   useHierarchyStats over a growing list of nodes.       *)
(* Four more cover what the claims about them need:                        *)
(*   WaitSpec    WfcSpec with the WaitingForChildren events of the parent; *)
(*   ReplaySpec  the effect alone, replaying an events array that grows;   *)
(*   StreamSpec  the open stream with the messages in flight, with the     *)
(*               fairness of the EventSource and of the effect;            *)
(*   SyncSpec    the synchronization page: interleaved runScenario calls.  *)
(***************************************************************************)
EXTENDS Integers, Sequences, FiniteSets, TLC

VARIABLES
    nodes,      \* useEnhancedHierarchy: the `nodes` state (Map in insertion order)
    last,       \* the event most recently handed to handleEvent
    steps,      \* number of handleEvent calls so far
    sessionId,  \* useEventStream: the sessionId argument
    enabled,    \* useEventStream: the enabled argument
    events,     \* useEventStream: the `events` state
    isConnected, \* useEventStream: the `isConnected` state
    error,      \* useEventStream: the `error` state
    sent,       \* number of messages the event sources have dispatched
    stale,      \* `events` changed since the effect of useEnhancedHierarchy ran
    applied,    \* the events the effect handed to handleEvent, in call order
    passes,     \* number of runs of that effect
    heap,       \* the Map, node and array objects, by address
    cur,        \* address of the Map object that is the `nodes` state
    snap,       \* address of the Map object a reader holds (0: none)
    snapView,   \* what the reader saw in that Map when it was handed over
    arg,        \* normalizeEvent: the argument of the latest call
    normalized, \* normalizeEvent: the outcome of that call
    timeline,   \* the CoroutineTimeline handed to useTimelineStats
    timelineStats, \* what useTimelineStats returns for it
    hierarchy,  \* the flat list of HierarchyNode the projections are given
    tree,       \* hierarchyListToTree of that list
    hierarchyStats, \* outcome of useHierarchyStats for that list
    inflight,   \* messages written to the open stream, not yet dispatched
    selectedScenario, \* sync page: the `selectedScenario` state
    isRunning,  \* sync page: the `isRunning` state
    pageSessionId, \* sync page: the `sessionId` state
    pageEvents, \* sync page: the `events` state
    mutexStates, \* sync page: the `mutexStates` state (Map by mutexId)
    semaphoreStates, \* sync page: the `semaphoreStates` state
    eventLog,   \* sync page: the `eventLog` state, without the clock times
    calls,      \* sync page: the runScenario calls and where each one is
    latest      \* the call started last (0: none, or handleReset came after)

reducerVars == <<nodes, last, steps>>
streamVars == <<sessionId, enabled, events, isConnected, error, sent>>
effectVars == <<stale, applied, passes>>
heapVars == <<heap, cur, snap, snapView>>
normalizerVars == <<arg, normalized>>
timelineVars == <<timeline, timelineStats>>
projectorVars == <<hierarchy, tree, hierarchyStats>>
wireVars == <<inflight>>
syncVars == <<selectedScenario, isRunning, pageSessionId, pageEvents,
              mutexStates, semaphoreStates, eventLog, calls, latest>>
pageVars == <<wireVars, syncVars>>
\* the state outside the two hooks
pureVars == <<normalizerVars, timelineVars, projectorVars, pageVars>>

vars == <<nodes, last, steps, sessionId, enabled, events, isConnected, error,
          sent, stale, applied, passes, heap, cur, snap, snapView, pureVars>>

----------------------------------------------------------------------------
(* Bounds and input domains *)

MaxSteps == 3
MaxSent == 2
MaxPasses == 2
MaxHeapSteps == 2
MaxEvents == 5
MaxNodes == 3
MaxReplay == 4
MaxRuns == 2

Ids == {"A", "B", "C"}

NULL == "null"
UNDEF == "undefined"
NoNumber == -1

Labels == {NULL, "worker"}
Times == {100}
ChildCounts == {0, 2}

States == {"CREATED", "ACTIVE", "SUSPENDED", "WAITING_FOR_CHILDREN",
           "COMPLETED", "CANCELLED", "FAILED"}

TerminalStates == {"COMPLETED", "CANCELLED", "FAILED"}

----------------------------------------------------------------------------
(* Events: BaseVizEvent / CoroutineEvent plus the kind-specific payload.   *)

BaseEvent(kind, c) ==
    [kind |-> kind, type |-> UNDEF, sessionId |-> "s1", seq |-> 0,
     tsNanos |-> 100,
     coroutineId |-> c, jobId |-> "job", parentCoroutineId |-> NULL,
     scopeId |-> "scope", label |-> NULL,
     isActive |-> FALSE, isCompleted |-> FALSE, isCancelled |-> FALSE,
     childrenCount |-> 0,
     activeChildrenCount |-> 0, activeChildrenIds |-> <<>>,
     threadId |-> NoNumber, threadName |-> UNDEF,
     dispatcherId |-> UNDEF, dispatcherName |-> UNDEF]

NoEvent == BaseEvent("none", NULL)

CreatedEvents ==
    { [BaseEvent("coroutine.created", c) EXCEPT
          !.parentCoroutineId = p, !.label = l, !.tsNanos = t] :
      c \in Ids, p \in Ids \cup {NULL}, l \in Labels, t \in Times }

SimpleEvents(kind) ==
    { [BaseEvent(kind, c) EXCEPT !.tsNanos = t] : c \in Ids, t \in Times }

WaitingPayloads == { <<>>, <<"B">>, <<"B", "C">> }

WaitingEvents ==
    { [BaseEvent("WaitingForChildren", c) EXCEPT
          !.activeChildrenIds = ids, !.activeChildrenCount = Len(ids)] :
      c \in Ids, ids \in WaitingPayloads }

JobEvents ==
    { [BaseEvent("JobStateChanged", c) EXCEPT
          !.isActive = a, !.isCompleted = d, !.isCancelled = x,
          !.childrenCount = n] :
      c \in Ids, a \in BOOLEAN, d \in BOOLEAN, x \in BOOLEAN,
      n \in ChildCounts }

ThreadEvents ==
    { [BaseEvent("thread.assigned", c) EXCEPT
          !.threadId = 7, !.threadName = "worker-7"] : c \in Ids }

DispatcherEvents ==
    { [BaseEvent("DispatcherSelected", c) EXCEPT
          !.dispatcherId = "d1", !.dispatcherName = "Default"] : c \in Ids }

\* a kind of VizEventKind that the switch of handleEvent has no case for
UnhandledEvents ==
    { BaseEvent("JobCancellationRequested", c) : c \in Ids }

\* a terminal event may carry a later timestamp than the other events
TerminalTimes == Times \cup {200}

TerminalEvents(kind) ==
    { [BaseEvent(kind, c) EXCEPT !.tsNanos = t] :
      c \in Ids, t \in TerminalTimes }

AllEvents ==
    CreatedEvents \cup WaitingEvents \cup JobEvents \cup ThreadEvents
        \cup DispatcherEvents \cup UnhandledEvents
        \cup UNION { SimpleEvents(k) : k \in
              {"coroutine.started", "coroutine.suspended", "coroutine.resumed",
               "coroutine.body-completed"} }
        \cup UNION { TerminalEvents(k) : k \in
              {"coroutine.completed", "coroutine.cancelled",
               "coroutine.failed"} }

----------------------------------------------------------------------------
(* A value handed to a function declared with a parameter of type `any`:   *)
(* an object, null, undefined or a primitive. Reading a property of null   *)
(* or undefined throws a TypeError; reading one of a primitive yields      *)
(* undefined.                                                              *)

JsObject(o) == [tag |-> "object", obj |-> o]
JsNull == [tag |-> "null", obj |-> NoEvent]
JsUndefined == [tag |-> "undefined", obj |-> NoEvent]
JsNumber == [tag |-> "number", obj |-> NoEvent]

\* outcome of a call: the value returned, or an exception
Returned(v) == [status |-> "returned", value |-> v]
Threw == [status |-> "threw", value |-> JsUndefined]
NotCalled == [status |-> "none", value |-> JsUndefined]

----------------------------------------------------------------------------
(* Map operations (JavaScript Map with insertion order) *)

EmptyMap == <<>>

Has(M, id) == \E i \in DOMAIN M : M[i].id = id

IndexOf(M, id) == CHOOSE i \in DOMAIN M : M[i].id = id

Get(M, id) == M[IndexOf(M, id)]

Set(M, id, n) ==
    IF Has(M, id) THEN [M EXCEPT ![IndexOf(M, id)] = n] ELSE Append(M, n)

Keys(M) == { M[i].id : i \in DOMAIN M }

Includes(s, x) == \E i \in DOMAIN s : s[i] = x

----------------------------------------------------------------------------
(* handleEvent: one case per event kind *)

NewNode(e) ==
    [id |-> e.coroutineId,
     parentId |-> e.parentCoroutineId,
     children |-> <<>>,
     name |-> IF e.label \in {NULL, UNDEF, ""} THEN e.coroutineId ELSE e.label,
     scopeId |-> e.scopeId,
     state |-> "CREATED",
     createdAtNanos |-> e.tsNanos,
     jobId |-> e.jobId,
     activeChildrenIds |-> <<>>,
     activeChildrenCount |-> 0,
     completedAtNanos |-> NoNumber,
     currentThreadId |-> NoNumber,
     currentThreadName |-> UNDEF,
     dispatcherId |-> UNDEF,
     dispatcherName |-> UNDEF]

\* `if (event.parentCoroutineId)`: null, undefined and "" are falsy
Truthy(s) == s \notin {NULL, UNDEF, ""}

\* coroutine.created with the `includes` test of line 46 left out
ApplyCreatedNoDedup(e, M) ==
    LET M1 == Set(M, e.coroutineId, NewNode(e))
    IN  IF Truthy(e.parentCoroutineId) /\ Has(M1, e.parentCoroutineId)
        THEN LET parent == Get(M1, e.parentCoroutineId)
             IN  Set(M1, e.parentCoroutineId,
                     [parent EXCEPT !.children =
                          Append(parent.children, e.coroutineId)])
        ELSE M1

\* coroutine.created that keeps the children of a node it replaces
ApplyCreatedKeepChildren(e, M) ==
    LET fresh == IF Has(M, e.coroutineId)
                 THEN [NewNode(e) EXCEPT
                          !.children = Get(M, e.coroutineId).children]
                 ELSE NewNode(e)
        M1 == Set(M, e.coroutineId, fresh)
    IN  IF Truthy(e.parentCoroutineId) /\ Has(M1, e.parentCoroutineId)
        THEN LET parent == Get(M1, e.parentCoroutineId)
             IN  IF ~Includes(parent.children, e.coroutineId)
                 THEN Set(M1, e.parentCoroutineId,
                          [parent EXCEPT !.children =
                               Append(parent.children, e.coroutineId)])
                 ELSE M1
        ELSE M1

ApplyCreated(e, M) ==
    LET M1 == Set(M, e.coroutineId, NewNode(e))
    IN  IF Truthy(e.parentCoroutineId) /\ Has(M1, e.parentCoroutineId)
        THEN LET parent == Get(M1, e.parentCoroutineId)
             IN  IF ~Includes(parent.children, e.coroutineId)
                 THEN Set(M1, e.parentCoroutineId,
                          [parent EXCEPT !.children =
                               Append(parent.children, e.coroutineId)])
                 ELSE M1
        ELSE M1

StateAfter(kind, node) ==
    CASE kind = "coroutine.started"   -> "ACTIVE"
      [] kind = "coroutine.suspended" -> "SUSPENDED"
      [] kind = "coroutine.resumed"   -> "ACTIVE"
      [] kind = "coroutine.completed" -> "COMPLETED"
      [] kind = "coroutine.cancelled" -> "CANCELLED"
      [] kind = "coroutine.failed"    -> "FAILED"
      [] OTHER -> node.state

\* started / suspended / resumed: `if (node)` guards the update
ApplyLifecycle(e, M) ==
    IF Has(M, e.coroutineId)
    THEN LET node == Get(M, e.coroutineId)
         IN  Set(M, e.coroutineId,
                 [node EXCEPT !.state = StateAfter(e.kind, node)])
    ELSE M

\* hasActiveChildren with 'CREATED' missing from the list of line 95
HasStartedChildren(node, M) ==
    \E i \in DOMAIN node.children :
        /\ Has(M, node.children[i])
        /\ Get(M, node.children[i]).state \in {"ACTIVE", "SUSPENDED"}

HasActiveChildren(node, M) ==
    \E i \in DOMAIN node.children :
        /\ Has(M, node.children[i])
        /\ Get(M, node.children[i]).state \in {"ACTIVE", "SUSPENDED", "CREATED"}

ApplyBodyCompleted(e, M) ==
    IF Has(M, e.coroutineId)
    THEN LET node == Get(M, e.coroutineId)
         IN  Set(M, e.coroutineId,
                 [node EXCEPT !.state =
                      IF HasActiveChildren(node, M)
                      THEN "WAITING_FOR_CHILDREN" ELSE node.state])
    ELSE M

ApplyWaitingForChildren(e, M) ==
    IF Has(M, e.coroutineId)
    THEN LET node == Get(M, e.coroutineId)
         IN  Set(M, e.coroutineId,
                 [node EXCEPT !.state = "WAITING_FOR_CHILDREN",
                              !.activeChildrenIds = e.activeChildrenIds,
                              !.activeChildrenCount = e.activeChildrenCount])
    ELSE M

JobNewState(e, node) ==
    IF e.isCancelled THEN "CANCELLED"
    ELSE IF e.isCompleted THEN "COMPLETED"
    ELSE IF ~e.isActive /\ e.childrenCount > 0 THEN "WAITING_FOR_CHILDREN"
    ELSE IF e.isActive THEN "ACTIVE"
    ELSE node.state

ApplyJobStateChanged(e, M) ==
    IF Has(M, e.coroutineId)
    THEN LET node == Get(M, e.coroutineId)
             newState == JobNewState(e, node)
         IN  Set(M, e.coroutineId,
                 [node EXCEPT !.state = newState,
                              !.activeChildrenCount =
                                  IF newState = "WAITING_FOR_CHILDREN"
                                  THEN e.childrenCount
                                  ELSE node.activeChildrenCount])
    ELSE M

\* a terminal event that changes the state and nothing else
ApplyTerminalStateOnly(e, M) ==
    IF Has(M, e.coroutineId)
    THEN LET node == Get(M, e.coroutineId)
         IN  Set(M, e.coroutineId,
                 [node EXCEPT !.state = StateAfter(e.kind, node)])
    ELSE M

\* a terminal event that also cancels the parent of a failed coroutine
ApplyTerminalPropagating(e, M) ==
    IF Has(M, e.coroutineId)
    THEN LET node == Get(M, e.coroutineId)
             M1 == Set(M, e.coroutineId,
                       [node EXCEPT !.state = StateAfter(e.kind, node),
                                    !.completedAtNanos = e.tsNanos,
                                    !.activeChildrenCount = 0,
                                    !.activeChildrenIds = <<>>])
         IN  IF e.kind = "coroutine.failed" /\ Has(M1, node.parentId)
             THEN Set(M1, node.parentId,
                      [Get(M1, node.parentId) EXCEPT !.state = "CANCELLED"])
             ELSE M1
    ELSE M

\* completed / cancelled / failed
ApplyTerminal(e, M) ==
    IF Has(M, e.coroutineId)
    THEN LET node == Get(M, e.coroutineId)
         IN  Set(M, e.coroutineId,
                 [node EXCEPT !.state = StateAfter(e.kind, node),
                              !.completedAtNanos = e.tsNanos,
                              !.activeChildrenCount = 0,
                              !.activeChildrenIds = <<>>])
    ELSE M

ApplyThreadAssigned(e, M) ==
    IF Has(M, e.coroutineId)
    THEN LET node == Get(M, e.coroutineId)
         IN  Set(M, e.coroutineId,
                 [node EXCEPT !.currentThreadId = e.threadId,
                              !.currentThreadName = e.threadName])
    ELSE M

ApplyDispatcherSelected(e, M) ==
    IF Has(M, e.coroutineId)
    THEN LET node == Get(M, e.coroutineId)
         IN  Set(M, e.coroutineId,
                 [node EXCEPT !.dispatcherId = e.dispatcherId,
                              !.dispatcherName = e.dispatcherName])
    ELSE M

\* the case labels of the switch other than coroutine.created
HandledNonCreatedKinds ==
    {"coroutine.started", "coroutine.suspended", "coroutine.resumed",
     "coroutine.body-completed", "coroutine.completed", "coroutine.cancelled",
     "coroutine.failed", "thread.assigned", "DispatcherSelected",
     "JobStateChanged", "WaitingForChildren"}

\* the updater passed to setNodes: switch (event.kind)
handleEvent(e, M) ==
    CASE e.kind = "coroutine.created" -> ApplyCreated(e, M)
      [] e.kind \in {"coroutine.started", "coroutine.suspended",
                     "coroutine.resumed"} -> ApplyLifecycle(e, M)
      [] e.kind = "coroutine.body-completed" -> ApplyBodyCompleted(e, M)
      [] e.kind = "WaitingForChildren" -> ApplyWaitingForChildren(e, M)
      [] e.kind = "JobStateChanged" -> ApplyJobStateChanged(e, M)
      [] e.kind \in {"coroutine.completed", "coroutine.cancelled",
                     "coroutine.failed"} -> ApplyTerminal(e, M)
      [] e.kind = "thread.assigned" -> ApplyThreadAssigned(e, M)
      [] e.kind = "DispatcherSelected" -> ApplyDispatcherSelected(e, M)
      [] OTHER -> M

\* events.forEach(handleEvent): the queued updaters run in array order
RECURSIVE Fold(_, _)
Fold(es, M) ==
    IF es = <<>> THEN M ELSE Fold(Tail(es), handleEvent(Head(es), M))

\* getRootNodes: Array.from(nodes.values()).filter(node => !node.parentId)
getRootNodes(M) == SelectSeq(M, LAMBDA n : ~Truthy(n.parentId))

----------------------------------------------------------------------------
(* handleEvent at the level of objects. The heap is the sequence of the    *)
(* objects allocated so far; the address of an object is its index.        *)

BlankFields == [NewNode(NoEvent) EXCEPT !.id = UNDEF]

MapObject(entries) ==
    [tag |-> "map", items |-> entries, fields |-> BlankFields,
     childrenRef |-> 0, activeRef |-> 0]

ArrayObject(items) ==
    [tag |-> "array", items |-> items, fields |-> BlankFields,
     childrenRef |-> 0, activeRef |-> 0]

NodeObject(value, childrenRef, activeRef) ==
    [tag |-> "node", items |-> <<>>,
     fields |-> [value EXCEPT !.children = <<>>, !.activeChildrenIds = <<>>],
     childrenRef |-> childrenRef, activeRef |-> activeRef]

\* what a reader sees through the reference to a node / to a Map
DerefNode(h, a) ==
    [h[a].fields EXCEPT !.children = h[h[a].childrenRef].items,
                        !.activeChildrenIds = h[h[a].activeRef].items]

DerefMap(h, m) ==
    [i \in 1..Len(h[m].items) |-> DerefNode(h, h[m].items[i])]

\* `const newNodes = prev`: the updater works on the Map it was given
SameMap(h, prev) == [heap |-> h, addr |-> prev]

\* `const newNodes = new Map(prev)`: a new Map object with the same entries
CopyMap(h, prev) ==
    [heap |-> Append(h, MapObject(h[prev].items)), addr |-> Len(h) + 1]

\* the Map.set calls of one handleEvent call, in order: key, object literal,
\* and which arrays of the literal are new ones rather than those spread
\* from the previous object
Write(key, value, newChildren, newActive) ==
    [key |-> key, value |-> value,
     newChildren |-> newChildren, newActive |-> newActive]

Writes(e, M) ==
    IF e.kind = "coroutine.created"
    THEN LET M1 == Set(M, e.coroutineId, NewNode(e))
             links == /\ Truthy(e.parentCoroutineId)
                      /\ Has(M1, e.parentCoroutineId)
                      /\ ~Includes(Get(M1, e.parentCoroutineId).children,
                                   e.coroutineId)
         IN  <<Write(e.coroutineId, NewNode(e), TRUE, TRUE)>> \o
             (IF links
              THEN <<Write(e.parentCoroutineId,
                           Get(handleEvent(e, M), e.parentCoroutineId),
                           TRUE, FALSE)>>
              ELSE <<>>)
    ELSE IF e.kind \in HandledNonCreatedKinds /\ Has(M, e.coroutineId)
         THEN <<Write(e.coroutineId, Get(handleEvent(e, M), e.coroutineId),
                      FALSE,
                      e.kind \in {"WaitingForChildren", "coroutine.completed",
                                  "coroutine.cancelled", "coroutine.failed"})>>
         ELSE <<>>

\* position of key in the Map object m, 0 when the Map has no such key
EntryOf(h, m, key) ==
    IF \E i \in DOMAIN h[m].items : h[h[m].items[i]].fields.id = key
    THEN CHOOSE i \in DOMAIN h[m].items : h[h[m].items[i]].fields.id = key
    ELSE 0

\* newNodes.set(key, { ...node, overrides }): the arrays, then the node
\* object, are allocated and the entry of the Map object m is set
MapSet(h, m, w) ==
    LET i == EntryOf(h, m, w.key)
        h1 == IF w.newChildren \/ i = 0
              THEN Append(h, ArrayObject(w.value.children)) ELSE h
        childrenRef == IF w.newChildren \/ i = 0
                       THEN Len(h1) ELSE h[h[m].items[i]].childrenRef
        h2 == IF w.newActive \/ i = 0
              THEN Append(h1, ArrayObject(w.value.activeChildrenIds)) ELSE h1
        activeRef == IF w.newActive \/ i = 0
                     THEN Len(h2) ELSE h[h[m].items[i]].activeRef
        h3 == Append(h2, NodeObject(w.value, childrenRef, activeRef))
    IN  [h3 EXCEPT ![m].items =
             IF i = 0 THEN Append(@, Len(h3)) ELSE [@ EXCEPT ![i] = Len(h3)]]

RECURSIVE MapSetAll(_, _, _)
MapSetAll(h, m, ws) ==
    IF ws = <<>> THEN h ELSE MapSetAll(MapSet(h, m, Head(ws)), m, Tail(ws))

\* the updater of setNodes on objects: the heap afterwards and the address
\* of the Map it returns
HeapHandle(e, h, prev) ==
    LET copy == CopyMap(h, prev)
    IN  [heap |-> MapSetAll(copy.heap, copy.addr, Writes(e, DerefMap(h, prev))),
         addr |-> copy.addr]

----------------------------------------------------------------------------
(* Timelines: generateMockCoroutineTimeline and useTimelineStats.          *)
(* Times are counted in milliseconds here (the code counts nanoseconds and *)
(* puts 10_000_000 of them between two generated events); a division       *)
(* drops the fraction.                                                     *)

\* TimelineEvent: the thread, dispatcher and suspension point fields are
\* read by neither function and are left out
TimelineEvent(seq, timestamp, kind) ==
    [seq |-> seq, timestamp |-> timestamp, kind |-> kind,
     duration |-> NoNumber]

generateMockTimelineEvent(seq, kind, baseTime) ==
    TimelineEvent(seq, baseTime + seq * 10, kind)

eventSequence ==
    <<"coroutine.created", "coroutine.started", "coroutine.suspended",
      "coroutine.resumed", "coroutine.completed">>

\* the duration of a suspension is stored on the resumed event that
\* directly follows the suspended one
WithDurations(evs) ==
    [i \in 1..Len(evs) |->
        IF evs[i].kind = "coroutine.resumed" /\ i > 1
              /\ evs[i - 1].kind = "coroutine.suspended"
        THEN [evs[i] EXCEPT !.duration = evs[i].timestamp - evs[i - 1].timestamp]
        ELSE evs[i]]

\* the reduce over the suspended events: its callback gets the index i
\* (from 0) of the event among the suspended ones and reads events[i + 1]
\* of the whole list
RECURSIVE ReduceSuspended(_, _, _)
ReduceSuspended(suspended, evs, i) ==
    IF i >= Len(suspended) THEN 0
    ELSE (IF i + 2 <= Len(evs)
          THEN evs[i + 2].timestamp - suspended[i + 1].timestamp
          ELSE 0) + ReduceSuspended(suspended, evs, i + 1)

SuspendedTime(evs) ==
    ReduceSuspended(SelectSeq(evs, LAMBDA e : e.kind = "coroutine.suspended"),
                    evs, 0)

\* what generateMockCoroutineTimeline makes of its list of events
TimelineOf(coroutineId, evs) ==
    LET withDurations == WithDurations(evs)
        totalDuration == withDurations[Len(evs)].timestamp
                             - withDurations[1].timestamp
        suspendedTime == SuspendedTime(withDurations)
    IN  [coroutineId |-> coroutineId, state |-> "COMPLETED", parentId |-> NULL,
         childrenIds |-> <<>>,
         totalDuration |-> totalDuration,
         activeTime |-> totalDuration - suspendedTime,
         suspendedTime |-> suspendedTime,
         events |-> withDurations]

generateMockCoroutineTimeline(coroutineId, baseTime) ==
    TimelineOf(coroutineId,
               [i \in 1..Len(eventSequence) |->
                   generateMockTimelineEvent(i - 1, eventSequence[i], baseTime)])

\* useTimelineStats(undefined)
NoTimeline ==
    [coroutineId |-> UNDEF, state |-> UNDEF, parentId |-> NULL,
     childrenIds |-> <<>>, totalDuration |-> 0, activeTime |-> 0,
     suspendedTime |-> 0, events |-> <<>>]

RECURSIVE SumSeq(_)
SumSeq(ds) == IF ds = <<>> THEN 0 ELSE Head(ds) + SumSeq(Tail(ds))

\* the durations found on the suspended events
SuspensionDurations(t) ==
    LET suspensionEvents ==
            SelectSeq(t.events, LAMBDA e : e.kind = "coroutine.suspended")
        durations == [i \in 1..Len(suspensionEvents) |->
                         suspensionEvents[i].duration]
    IN  SelectSeq(durations, LAMBDA d : d # NoNumber)

Percent(part, whole) == IF whole > 0 THEN (part * 100) \div whole ELSE 0

useTimelineStats(t) ==
    IF t = NoTimeline
    THEN [totalDuration |-> 0, activeTime |-> 0, suspendedTime |-> 0,
          activePercent |-> 0, suspendedPercent |-> 0, suspensionCount |-> 0,
          avgSuspensionDuration |-> 0]
    ELSE LET suspensionDurations == SuspensionDurations(t)
         IN  [totalDuration |-> t.totalDuration,
              activeTime |-> t.activeTime,
              suspendedTime |-> t.suspendedTime,
              activePercent |-> Percent(t.activeTime, t.totalDuration),
              suspendedPercent |-> Percent(t.suspendedTime, t.totalDuration),
              suspensionCount |->
                  Len(SelectSeq(t.events,
                                LAMBDA e : e.kind = "coroutine.suspended")),
              avgSuspensionDuration |->
                  IF Len(suspensionDurations) > 0
                  THEN SumSeq(suspensionDurations)
                           \div Len(suspensionDurations)
                  ELSE 0]

----------------------------------------------------------------------------
(* Projections of a flat list of nodes: the forest (hierarchyListToTree,   *)
(* buildCoroutineTree, useHierarchyTree), the list of a forest             *)
(* (hierarchyTreeToList) and the statistics (useHierarchyStats).           *)
(* The three forest builders keep the node objects in a Map by id and      *)
(* push references into the children arrays; with distinct ids the id      *)
(* stands for the reference.                                               *)

\* a HierarchyNode of the list, with the fields the projections read
FlatNode(id, parentId, state) ==
    [id |-> id, parentId |-> parentId, children |-> <<>>, state |-> state]

IdsOf(L) == { L[i].id : i \in 1..Len(L) }

\* nodes.find(n => n.id === id)
Find(L, id) == L[CHOOSE i \in 1..Len(L) :
                    L[i].id = id /\ \A j \in 1..(i - 1) : L[j].id # id]

\* the node is attached wherever its parentId says
HasParentId(L, node) == Truthy(node.parentId)

\* node.parentId && nodeMap.has(node.parentId)
HasParent(L, node) == Truthy(node.parentId) /\ node.parentId \in IdsOf(L)

\* the second forEach: every node is pushed to the children of its parent
\* or to the roots; `children` maps an id to the ids pushed to its array
RECURSIVE Link(_, _, _)
Link(L, i, links) ==
    IF i > Len(L) THEN links
    ELSE LET node == L[i]
         IN  Link(L, i + 1,
                  IF HasParent(L, node)
                  THEN IF node.parentId \in DOMAIN links.children
                       THEN [links EXCEPT !.children[node.parentId] =
                                               Append(@, node.id)]
                       ELSE links
                  ELSE [links EXCEPT !.roots = Append(@, node.id)])

\* the Map with empty children arrays, then the links
Links(L) == Link(L, 1, [children |-> [id \in IdsOf(L) |-> <<>>],
                        roots |-> <<>>])

\* the value of a tree node: its data and, nested, the nodes its children
\* array refers to
RECURSIVE Nest(_, _, _)
Nest(L, links, id) ==
    [Find(L, id) EXCEPT !.children =
        [j \in 1..Len(links.children[id]) |->
            Nest(L, links, links.children[id][j])]]

Forest(L) ==
    LET links == Links(L)
    IN  [i \in 1..Len(links.roots) |-> Nest(L, links, links.roots[i])]

hierarchyListToTree(L) == Forest(L)

buildCoroutineTree(L) == Forest(L)

useHierarchyTree(L) == IF Len(L) = 0 THEN <<>> ELSE Forest(L)

RECURSIVE traverse(_)
RECURSIVE traverseAll(_)

\* the node without a visit of its children
traverseNode(node) ==
    <<[node EXCEPT !.children = [j \in 1..Len(@) |-> @[j].id]]>>

\* the node with the ids of its children, then its children in order
traverse(node) ==
    <<[node EXCEPT !.children = [j \in 1..Len(@) |-> @[j].id]]>>
        \o traverseAll(node.children)

traverseAll(trees) ==
    IF trees = <<>> THEN <<>>
    ELSE traverse(Head(trees)) \o traverseAll(Tail(trees))

hierarchyTreeToList(trees) == traverseAll(trees)

\* useHierarchyStats. A call of calculateDepth for a node writes the
\* node's entry of `depths` only after the call for its parent returned.
\* `pending` holds the nodes whose calls have not returned yet: a call for
\* one of them finds no entry and asks for the same parents again, without
\* end, until the call stack is exhausted and a RangeError is thrown.
EmptyCounts == [x \in {} |-> 0]

RECURSIVE calculateDepth(_, _, _, _)
calculateDepth(L, depths, node, pending) ==
    IF node.id \in DOMAIN depths
    THEN [depths |-> depths, depth |-> depths[node.id], overflow |-> FALSE]
    ELSE IF ~Truthy(node.parentId) \/ node.parentId \notin IdsOf(L)
    THEN [depths |-> depths @@ (node.id :> 0), depth |-> 0,
          overflow |-> FALSE]
    ELSE IF node.parentId \in pending \cup {node.id}
    THEN [depths |-> depths, depth |-> 0, overflow |-> TRUE]
    ELSE LET r == calculateDepth(L, depths, Find(L, node.parentId),
                                 pending \cup {node.id})
         IN  IF r.overflow THEN r
             ELSE [depths |-> r.depths @@ (node.id :> r.depth + 1),
                   depth |-> r.depth + 1, overflow |-> FALSE]

\* byState[node.state] = (byState[node.state] || 0) + 1
CountState(byState, state) ==
    IF state \in DOMAIN byState
    THEN [byState EXCEPT ![state] = @ + 1]
    ELSE byState @@ (state :> 1)

\* nodes.forEach: count the state, compute the depth
RECURSIVE StatsPass(_, _, _)
StatsPass(L, i, acc) ==
    IF i > Len(L) \/ acc.overflow THEN acc
    ELSE LET r == calculateDepth(L, acc.depths, L[i], {})
         IN  StatsPass(L, i + 1,
                       [byState |-> CountState(acc.byState, L[i].state),
                        depths |-> r.depths, overflow |-> r.overflow])

RECURSIVE MaxOf(_)
MaxOf(S) == IF S = {} THEN 0
            ELSE LET x == CHOOSE y \in S : TRUE
                     m == MaxOf(S \ {x})
                 IN  IF x > m THEN x ELSE m

\* the record returned (the dispatcher counts and the time averages are
\* left out), or the exception
useHierarchyStats(L) ==
    IF Len(L) = 0
    THEN Returned([total |-> 0, byState |-> EmptyCounts, maxDepth |-> 0])
    ELSE LET acc == StatsPass(L, 1, [byState |-> EmptyCounts,
                                     depths |-> EmptyCounts,
                                     overflow |-> FALSE])
         IN  IF acc.overflow
             THEN [status |-> "threw",
                   value |-> [total |-> 0, byState |-> EmptyCounts,
                              maxDepth |-> 0]]
             ELSE Returned([total |-> Len(L), byState |-> acc.byState,
                            maxDepth |-> MaxOf({ acc.depths[id] :
                                            id \in DOMAIN acc.depths })])

----------------------------------------------------------------------------
(* The reducer as a state machine: any event may be handed to handleEvent. *)

Init ==
    /\ nodes = EmptyMap
    /\ last = NoEvent
    /\ steps = 0
    /\ sessionId = "s1"
    /\ enabled = TRUE
    /\ events = <<>>
    /\ isConnected = FALSE
    /\ error = NULL
    /\ sent = 0
    /\ stale = FALSE
    /\ applied = <<>>
    /\ passes = 0
    /\ heap = <<MapObject(<<>>)>>
    /\ cur = 1
    /\ snap = 0
    /\ snapView = EmptyMap
    /\ arg = JsUndefined
    /\ normalized = NotCalled
    /\ timeline = NoTimeline
    /\ timelineStats = useTimelineStats(NoTimeline)
    /\ hierarchy = <<>>
    /\ tree = hierarchyListToTree(<<>>)
    /\ hierarchyStats = useHierarchyStats(<<>>)
    /\ inflight = <<>>
    /\ selectedScenario = NULL
    /\ isRunning = FALSE
    /\ pageSessionId = NULL
    /\ pageEvents = <<>>
    /\ mutexStates = <<>>
    /\ semaphoreStates = <<>>
    /\ eventLog = <<>>
    /\ calls = <<>>
    /\ latest = 0

Step(e) ==
    /\ steps < MaxSteps
    /\ nodes' = handleEvent(e, nodes)
    /\ last' = e
    /\ steps' = steps + 1
    /\ UNCHANGED <<pureVars, streamVars, effectVars, heapVars>>

Created == \E e \in CreatedEvents : Step(e)
Started == \E e \in SimpleEvents("coroutine.started") : Step(e)
Suspended == \E e \in SimpleEvents("coroutine.suspended") : Step(e)
Resumed == \E e \in SimpleEvents("coroutine.resumed") : Step(e)
BodyCompleted == \E e \in SimpleEvents("coroutine.body-completed") : Step(e)
WaitingForChildren == \E e \in WaitingEvents : Step(e)
JobStateChanged == \E e \in JobEvents : Step(e)
Completed == \E e \in TerminalEvents("coroutine.completed") : Step(e)
Cancelled == \E e \in TerminalEvents("coroutine.cancelled") : Step(e)
Failed == \E e \in TerminalEvents("coroutine.failed") : Step(e)
ThreadAssigned == \E e \in ThreadEvents : Step(e)
DispatcherSelected == \E e \in DispatcherEvents : Step(e)
Unhandled == \E e \in UnhandledEvents : Step(e)

Next ==
    \/ Created
    \/ Started
    \/ Suspended
    \/ Resumed
    \/ BodyCompleted
    \/ WaitingForChildren
    \/ JobStateChanged
    \/ Completed
    \/ Cancelled
    \/ Failed
    \/ ThreadAssigned
    \/ DispatcherSelected
    \/ Unhandled

Spec == Init /\ [][Next]_vars

TypeOK ==
    /\ steps \in 0..MaxSteps
    /\ \A i \in DOMAIN nodes : nodes[i].state \in States
    /\ \A i \in DOMAIN nodes : \A j \in DOMAIN nodes :
          nodes[i].id = nodes[j].id => i = j

----------------------------------------------------------------------------
(* The reducer fed with the events of structured concurrency: a root A,    *)
(* children B and C launched in A, bodies completing, jobs completing.     *)

CreatedOf(c, p) ==
    [BaseEvent("coroutine.created", c) EXCEPT !.parentCoroutineId = p]

JobCompletedOf(c) ==
    [BaseEvent("JobStateChanged", c) EXCEPT !.isCompleted = TRUE]

WfcStep(e) ==
    /\ nodes' = handleEvent(e, nodes)
    /\ last' = e
    /\ UNCHANGED <<pureVars, steps, streamVars, effectVars, heapVars>>

WfcCreated ==
    \E e \in {CreatedOf("A", NULL), CreatedOf("B", "A"), CreatedOf("C", "A")} :
        WfcStep(e)
WfcBodyCompleted ==
    \E c \in Ids : WfcStep(BaseEvent("coroutine.body-completed", c))
WfcCompleted ==
    \E c \in Ids : WfcStep(BaseEvent("coroutine.completed", c))
WfcJobCompleted ==
    \E c \in Ids : WfcStep(JobCompletedOf(c))

WfcNext ==
    \/ WfcCreated
    \/ WfcBodyCompleted
    \/ WfcCompleted
    \/ WfcJobCompleted

WfcSpec == Init /\ [][WfcNext]_vars

\* the same parent, also told by the backend which children it waits for
WaitingOf(c, ids) ==
    [BaseEvent("WaitingForChildren", c) EXCEPT
        !.activeChildrenIds = ids, !.activeChildrenCount = Len(ids)]

WfcWaiting ==
    \E ids \in {<<"B">>, <<"B", "C">>} : WfcStep(WaitingOf("A", ids))

WaitNext == WfcNext \/ WfcWaiting

WaitSpec == Init /\ [][WaitNext]_vars

----------------------------------------------------------------------------
(* The reducer on objects, with a reader that keeps a Map it was given     *)
(* (a render, or the getRootNodes / getChildren closures over `nodes`).    *)

HeapEvents ==
    { e \in AllEvents :
        /\ e.coroutineId \in {"A", "B"}
        /\ e.parentCoroutineId \in {NULL, "A"}
        /\ e.label = NULL
        /\ e.childrenCount \in {0, 2} }

HeapApply ==
    \E e \in HeapEvents :
        LET r == HeapHandle(e, heap, cur)
        IN  /\ steps < MaxHeapSteps
            /\ heap' = r.heap
            /\ cur' = r.addr
            /\ nodes' = handleEvent(e, nodes)
            /\ last' = e
            /\ steps' = steps + 1
            /\ UNCHANGED <<pureVars, snap, snapView, streamVars, effectVars>>

\* a reader is handed the current Map
TakeSnapshot ==
    /\ snap # cur
    /\ snap' = cur
    /\ snapView' = DerefMap(heap, cur)
    /\ UNCHANGED <<pureVars, heap, cur, reducerVars, streamVars, effectVars>>

HeapNext ==
    \/ HeapApply
    \/ TakeSnapshot

HeapSpec == Init /\ [][HeapNext]_vars

\* the objects reachable from the current Map hold the map of the reducer
HeapAgrees == nodes = DerefMap(heap, cur)

----------------------------------------------------------------------------
(* useEventStream and the effect of useEnhancedHierarchy *)

SessionIds == {"s1", "s2"}

\* the lookup table from the backend's event type to the kind
EVENT_TYPE_TO_KIND ==
    ("CoroutineCreated" :> "coroutine.created")
    @@ ("CoroutineStarted" :> "coroutine.started")
    @@ ("CoroutineSuspended" :> "coroutine.suspended")
    @@ ("CoroutineResumed" :> "coroutine.resumed")
    @@ ("CoroutineBodyCompleted" :> "coroutine.body-completed")
    @@ ("CoroutineCompleted" :> "coroutine.completed")
    @@ ("CoroutineCancelled" :> "coroutine.cancelled")
    @@ ("CoroutineFailed" :> "coroutine.failed")
    @@ ("ThreadAssigned" :> "thread.assigned")
    @@ ("DispatcherSelected" :> "DispatcherSelected")
    @@ ("DeferredValueAvailable" :> "DeferredValueAvailable")
    @@ ("DeferredAwaitStarted" :> "DeferredAwaitStarted")
    @@ ("DeferredAwaitCompleted" :> "DeferredAwaitCompleted")
    @@ ("JobStateChanged" :> "JobStateChanged")
    @@ ("JobCancellationRequested" :> "JobCancellationRequested")
    @@ ("JobJoinRequested" :> "JobJoinRequested")
    @@ ("JobJoinCompleted" :> "JobJoinCompleted")

\* the type name itself, whatever the table says
typeVerbatim(type) == type

\* EVENT_TYPE_TO_KIND[type] || type
eventTypeToKind(type) ==
    IF type \in DOMAIN EVENT_TYPE_TO_KIND THEN EVENT_TYPE_TO_KIND[type]
    ELSE type

\* the record is returned as it is when it has a kind; otherwise its type
\* is mapped to the kind and the type field is deleted
normalizeEvent(raw) ==
    IF Truthy(raw.kind) THEN raw
    ELSE IF Truthy(raw.type)
         THEN [raw EXCEPT !.kind = eventTypeToKind(raw.type), !.type = UNDEF]
         ELSE raw

\* a call normalizeEvent(v) with any value: `event.kind` throws on null
\* and undefined, an object goes through the branches above, a primitive
\* has neither property and is returned by the last line
normalizeEventCall(v) ==
    IF v.tag \in {"null", "undefined"} THEN Threw
    ELSE IF v.tag = "object" THEN Returned(JsObject(normalizeEvent(v.obj)))
    ELSE Returned(v)

\* the SSE event names useEventStream adds a listener for
eventTypes ==
    {"CoroutineCreated", "CoroutineStarted", "CoroutineSuspended",
     "CoroutineResumed", "CoroutineBodyCompleted", "CoroutineCompleted",
     "CoroutineCancelled", "CoroutineFailed", "ThreadAssigned",
     "DispatcherSelected", "DeferredValueAvailable", "DeferredAwaitStarted",
     "DeferredAwaitCompleted", "JobStateChanged", "JobCancellationRequested",
     "JobJoinRequested", "JobJoinCompleted",
     "coroutine.created", "coroutine.started", "coroutine.suspended",
     "coroutine.resumed", "coroutine.body-completed", "coroutine.completed",
     "coroutine.cancelled", "coroutine.failed", "thread.assigned"}

\* a message of the backend: SSE event name and the record in its data,
\* which carries the PascalCase name in `type` and no `kind`; `parses`
\* tells whether JSON.parse accepts the data
Wire(name, c, p) ==
    [name |-> name, parses |-> TRUE,
     data |-> [BaseEvent(UNDEF, c) EXCEPT !.type = name,
                                          !.parentCoroutineId = p]]

\* a message in the front end's own format: `kind` set, no `type`
WireKind(kind, c) ==
    [name |-> kind, parses |-> TRUE, data |-> BaseEvent(kind, c)]

\* a message whose record has neither `kind` nor `type`
WireBare(name, c) ==
    [name |-> name, parses |-> TRUE, data |-> BaseEvent(UNDEF, c)]

\* a message whose data is not JSON
WireMalformed(name) ==
    [name |-> name, parses |-> FALSE, data |-> BaseEvent(UNDEF, NULL)]

WireMessages ==
    { Wire("CoroutineCreated", "A", NULL), Wire("CoroutineCreated", "B", "A"),
      Wire("CoroutineStarted", "A", NULL),
      Wire("CoroutineCompleted", "B", "A"),
      Wire("WaitingForChildren", "A", NULL),
      WireKind("coroutine.suspended", "A"),
      WireBare("coroutine.failed", "B"),
      WireMalformed("CoroutineStarted") }

\* the source exists while the effect of useEventStream has a session
SourceOpen == Truthy(sessionId) /\ enabled

\* listener of one SSE event name: parse, normalize, default the kind to
\* the SSE event name, append to `events`; data that does not parse is
\* ignored. A message under a name without listener reaches no handler.
Received(w) ==
    LET event == normalizeEvent([w.data EXCEPT !.sessionId = sessionId,
                                                !.seq = sent + 1])
    IN  IF Truthy(event.kind) THEN event ELSE [event EXCEPT !.kind = w.name]

Deliver ==
    \E w \in WireMessages :
        /\ SourceOpen
        /\ isConnected
        /\ sent < MaxSent
        /\ w.name \in eventTypes
        /\ events' = IF w.parses THEN Append(events, Received(w)) ELSE events
        /\ sent' = sent + 1
        /\ stale' = (stale \/ w.parses)
        /\ UNCHANGED <<pureVars, heapVars, reducerVars, sessionId, enabled, isConnected, error,
                       applied, passes>>

\* eventSource.onopen
OnOpen ==
    /\ SourceOpen
    /\ ~isConnected
    /\ isConnected' = TRUE
    /\ error' = NULL
    /\ UNCHANGED <<pureVars, heapVars, reducerVars, sessionId, enabled, events, sent, effectVars>>

\* eventSource.onerror
OnError ==
    /\ SourceOpen
    /\ isConnected
    /\ isConnected' = FALSE
    /\ error' = "Connection lost"
    /\ UNCHANGED <<pureVars, heapVars, reducerVars, sessionId, enabled, events, sent, effectVars>>

\* the component passes another sessionId: the cleanup closes the source
\* and the effect runs again; `events` is not reset
SetSession ==
    \E s \in SessionIds \cup {UNDEF} :
        /\ s # sessionId
        /\ sessionId' = s
        /\ isConnected' = FALSE
        /\ UNCHANGED <<pureVars, heapVars, reducerVars, enabled, events, error, sent, effectVars>>

\* the component toggles `enabled`
SetEnabled ==
    /\ enabled' = ~enabled
    /\ isConnected' = FALSE
    /\ UNCHANGED <<pureVars, heapVars, reducerVars, sessionId, events, error, sent, effectVars>>

\* clearEvents: setEvents([])
ClearEvents ==
    /\ events # <<>>
    /\ events' = <<>>
    /\ stale' = TRUE
    /\ UNCHANGED <<pureVars, heapVars, reducerVars, sessionId, enabled, isConnected, error, sent,
                   applied, passes>>

\* useEffect(() => { events.forEach(handleEvent) }, [events, handleEvent])
RunEffect ==
    /\ stale
    /\ passes < MaxPasses
    /\ nodes' = Fold(events, nodes)
    /\ last' = IF events = <<>> THEN last ELSE events[Len(events)]
    /\ steps' = steps + Len(events)
    /\ applied' = applied \o events
    /\ stale' = FALSE
    /\ passes' = passes + 1
    /\ UNCHANGED <<pureVars, streamVars, heapVars>>

HookNext ==
    \/ Deliver
    \/ OnOpen
    \/ OnError
    \/ SetSession
    \/ SetEnabled
    \/ ClearEvents
    \/ RunEffect

HookSpec == Init /\ [][HookNext]_vars

\* The effect alone: the events array grows by append (setEvents(prev =>
\* [...prev, event])) and each pass replays the whole array over the map the
\* previous pass left.
ReplayEvents ==
    { CreatedOf("A", NULL), CreatedOf("B", "A"), CreatedOf("B", NULL),
      BaseEvent("coroutine.started", "B"),
      BaseEvent("coroutine.body-completed", "A"),
      BaseEvent("coroutine.completed", "B"),
      WaitingOf("A", <<"B">>), JobCompletedOf("A"), CreatedOf("A", "B") }

ReplayAppend ==
    \E e \in ReplayEvents :
        /\ Len(events) < MaxReplay
        /\ events' = Append(events, e)
        /\ stale' = TRUE
        /\ UNCHANGED <<pureVars, heapVars, reducerVars, sessionId, enabled,
                       isConnected, error, sent, applied, passes>>

ReplayNext == ReplayAppend \/ RunEffect

ReplaySpec == Init /\ [][ReplayNext]_vars

\* The stream that stays open: the backend writes one message per event,
\* under the SSE event name that is the event's type, and the EventSource
\* dispatches the messages in order, each to the listener of its name.
\* One message for each kind that handleEvent has a case for.
BackendMessages ==
    { Wire(t, "A", NULL) :
        t \in { u \in DOMAIN EVENT_TYPE_TO_KIND \cup {"WaitingForChildren"} :
                  eventTypeToKind(u) \in {"coroutine.created"}
                                            \cup HandledNonCreatedKinds } }

Send ==
    \E w \in BackendMessages :
        /\ SourceOpen
        /\ isConnected
        /\ sent + Len(inflight) < MaxSent
        /\ inflight' = Append(inflight, w)
        /\ UNCHANGED <<normalizerVars, timelineVars, projectorVars, syncVars,
                       heapVars, reducerVars, streamVars, effectVars>>

\* a message whose name has a listener is parsed, normalized and appended;
\* a message under any other name is dispatched to no listener
Dispatch ==
    /\ inflight # <<>>
    /\ LET w == Head(inflight)
       IN  /\ events' = IF w.name \in eventTypes /\ w.parses
                         THEN Append(events, Received(w)) ELSE events
           /\ stale' = (stale \/ (w.name \in eventTypes /\ w.parses))
    /\ inflight' = Tail(inflight)
    /\ sent' = sent + 1
    /\ UNCHANGED <<normalizerVars, timelineVars, projectorVars, syncVars,
                   heapVars, reducerVars, sessionId, enabled, isConnected,
                   error, applied, passes>>

StreamNext == OnOpen \/ Send \/ Dispatch \/ RunEffect

\* the EventSource dispatches every message it received, and React runs the
\* effect of a changed `events`
StreamSpec ==
    Init /\ [][StreamNext]_vars /\ WF_vars(Dispatch) /\ WF_vars(RunEffect)

----------------------------------------------------------------------------
(* The synchronization page: runScenario is an async function, so a call   *)
(* is a chain of steps with an await between them, and the steps of        *)
(* several calls interleave. A Map by id is a function here.               *)

Scenarios == {"mutex/counter", "semaphore/connection-pool"}

\* a SyncEvent with the fields processEvent reads; `coroutine` stands for
\* requesterId / acquirerId / releaserId and `permits` for totalPermits /
\* remainingPermits / newAvailablePermits / availablePermits; a key the
\* event does not have is UNDEF
SyncEvent(kind, sid, mutexId, semaphoreId, coroutine, isLocked, permits) ==
    [kind |-> kind, sessionId |-> sid, mutexId |-> mutexId,
     semaphoreId |-> semaphoreId, label |-> NULL, coroutine |-> coroutine,
     isLocked |-> isLocked, waitDurationNanos |-> 0, permits |-> permits]

\* what GET /api/sessions/{sid}/events returns for a run of the scenario
SessionEvents(scenario, sid) ==
    IF scenario = "mutex/counter"
    THEN << SyncEvent("MutexCreated", sid, "m1", UNDEF, UNDEF, FALSE, 0),
            SyncEvent("MutexLockAcquired", sid, "m1", UNDEF, "c1", FALSE, 0),
            SyncEvent("MutexLockRequested", sid, "m1", UNDEF, "c2", TRUE, 0) >>
    ELSE << SyncEvent("SemaphoreCreated", sid, UNDEF, "s1", UNDEF, FALSE, 3),
            SyncEvent("SemaphorePermitAcquired", sid, UNDEF, "s1", "c1",
                      FALSE, 2),
            SyncEvent("SemaphorePermitReleased", sid, UNDEF, "s1", "c1",
                      FALSE, 3) >>

\* `owner: null` is the CoroutineInfo without id
createEmptyMutexState(id, label) ==
    [mutexId |-> id, label |-> label, isLocked |-> FALSE,
     owner |-> [id |-> NULL, label |-> NULL],
     holdDurationMs |-> 0, waitQueue |-> <<>>, totalAcquisitions |-> 0,
     contentionCount |-> 0]

createEmptySemaphoreState(id, label) ==
    [semaphoreId |-> id, label |-> label, totalPermits |-> 0,
     availablePermits |-> 0, activeHolders |-> <<>>, waitQueue |-> <<>>,
     utilization |-> 0, totalAcquisitions |-> 0, totalReleases |-> 0]

\* the updater passed to setMutexStates
MutexUpdate(e, M) ==
    LET currentState == IF e.mutexId \in DOMAIN M THEN M[e.mutexId]
                        ELSE createEmptyMutexState(e.mutexId, e.label)
        info == [id |-> e.coroutine, label |-> NULL]
    IN  CASE e.kind = "MutexCreated" -> (e.mutexId :> currentState) @@ M
          [] e.kind = "MutexLockRequested" ->
                (e.mutexId :> [currentState EXCEPT !.waitQueue =
                                   IF e.isLocked THEN Append(@, info) ELSE @])
                    @@ M
          [] e.kind = "MutexLockAcquired" ->
                (e.mutexId :>
                    [currentState EXCEPT
                        !.isLocked = TRUE,
                        !.owner = info,
                        !.waitQueue = SelectSeq(@, LAMBDA w : w.id # e.coroutine),
                        !.totalAcquisitions = @ + 1,
                        !.contentionCount =
                            IF e.waitDurationNanos > 0 THEN @ + 1 ELSE @])
                    @@ M
          [] e.kind = "MutexUnlocked" ->
                (e.mutexId :> [currentState EXCEPT !.isLocked = FALSE,
                                                   !.owner =
                                                       [id |-> NULL,
                                                        label |-> NULL],
                                                   !.holdDurationMs = 0])
                    @@ M
          [] OTHER -> M

\* the updater passed to setSemaphoreStates; utilization in percent, and
\* NoNumber for the NaN or Infinity of a division by totalPermits = 0
SemaphoreUpdate(e, M) ==
    LET currentState == IF e.semaphoreId \in DOMAIN M THEN M[e.semaphoreId]
                        ELSE createEmptySemaphoreState(e.semaphoreId, e.label)
        info == [id |-> e.coroutine, label |-> NULL]
        utilization == IF currentState.totalPermits = 0 THEN NoNumber
                       ELSE ((currentState.totalPermits - e.permits) * 100)
                                \div currentState.totalPermits
    IN  CASE e.kind = "SemaphoreCreated" ->
                (e.semaphoreId :> [currentState EXCEPT
                                      !.totalPermits = e.permits,
                                      !.availablePermits = e.permits]) @@ M
          [] e.kind = "SemaphorePermitAcquired" ->
                (e.semaphoreId :>
                    [currentState EXCEPT
                        !.availablePermits = e.permits,
                        !.activeHolders = Append(@, info),
                        !.waitQueue = SelectSeq(@, LAMBDA w : w.id # e.coroutine),
                        !.totalAcquisitions = @ + 1,
                        !.utilization = utilization]) @@ M
          [] e.kind = "SemaphorePermitReleased" ->
                (e.semaphoreId :>
                    [currentState EXCEPT
                        !.availablePermits = e.permits,
                        !.activeHolders = SelectSeq(@, LAMBDA h : h.id # e.coroutine),
                        !.totalReleases = @ + 1,
                        !.utilization = utilization]) @@ M
          [] e.kind = "SemaphoreAcquireRequested" ->
                (e.semaphoreId :> [currentState EXCEPT !.waitQueue =
                                      IF e.permits = 0 THEN Append(@, info)
                                      ELSE @]) @@ M
          [] OTHER -> M

\* processEvent on the page state [events, mutexStates, semaphoreStates,
\* eventLog]; a log entry is the event kind and the label or id it names
processEvent(e, st) ==
    [events |-> Append(st.events, e),
     mutexStates |-> IF e.mutexId # UNDEF
                     THEN MutexUpdate(e, st.mutexStates) ELSE st.mutexStates,
     semaphoreStates |-> IF e.semaphoreId # UNDEF
                         THEN SemaphoreUpdate(e, st.semaphoreStates)
                         ELSE st.semaphoreStates,
     eventLog |->
        Append(IF Len(st.eventLog) > 50
               THEN SubSeq(st.eventLog, Len(st.eventLog) - 49, Len(st.eventLog))
               ELSE st.eventLog,
               <<e.kind,
                 IF e.semaphoreId # UNDEF THEN e.semaphoreId ELSE e.mutexId>>)]

\* runScenario up to its first await
RunScenario ==
    \E scenario \in Scenarios :
        /\ Len(calls) < MaxRuns
        /\ selectedScenario' = scenario
        /\ isRunning' = TRUE
        /\ pageEvents' = <<>>
        /\ mutexStates' = <<>>
        /\ semaphoreStates' = <<>>
        /\ eventLog' = << <<"Starting scenario", scenario>> >>
        /\ calls' = Append(calls, [scenario |-> scenario, pc |-> "run", i |-> 0])
        /\ latest' = Len(calls) + 1
        /\ UNCHANGED <<normalizerVars, timelineVars, projectorVars, wireVars,
                       pageSessionId, reducerVars, streamVars, effectVars,
                       heapVars>>

\* the response of GET /api/sync/{path}: success with the session id of the
\* run, or a failure, after which `finally` clears isRunning
RunResponse ==
    \E c \in DOMAIN calls, success \in BOOLEAN :
        /\ calls[c].pc = "run"
        /\ IF success
           THEN /\ pageSessionId' = ToString(c)
                /\ eventLog' = eventLog \o << <<"Completed", c>>,
                                              <<"Events generated", c>> >>
                /\ calls' = [calls EXCEPT ![c].pc = "fetch"]
                /\ UNCHANGED isRunning
           ELSE /\ eventLog' = Append(eventLog, <<"Failed", c>>)
                /\ isRunning' = FALSE
                /\ calls' = [calls EXCEPT ![c].pc = "done"]
                /\ UNCHANGED pageSessionId
        /\ UNCHANGED <<normalizerVars, timelineVars, projectorVars, wireVars,
                       selectedScenario, pageEvents, mutexStates,
                       semaphoreStates, latest, reducerVars, streamVars,
                       effectVars, heapVars>>

\* fetchSessionEvents: the response with the events of the session, or a
\* failure that is logged to the console
EventsResponse ==
    \E c \in DOMAIN calls, success \in BOOLEAN :
        /\ calls[c].pc = "fetch"
        /\ IF success
           THEN /\ calls' = [calls EXCEPT ![c].pc = "animate"]
                /\ UNCHANGED isRunning
           ELSE /\ calls' = [calls EXCEPT ![c].pc = "done"]
                /\ isRunning' = FALSE
        /\ UNCHANGED <<normalizerVars, timelineVars, projectorVars, wireVars,
                       selectedScenario, pageSessionId, pageEvents,
                       mutexStates, semaphoreStates, eventLog, latest,
                       reducerVars, streamVars, effectVars, heapVars>>

\* one turn of the loop: the timer of 100 ms fires and processEvent runs;
\* after the last event the call returns and `finally` clears isRunning
Animate ==
    \E c \in DOMAIN calls :
        /\ calls[c].pc = "animate"
        /\ LET fetched == SessionEvents(calls[c].scenario, c)
               st == processEvent(fetched[calls[c].i + 1],
                                  [events |-> pageEvents,
                                   mutexStates |-> mutexStates,
                                   semaphoreStates |-> semaphoreStates,
                                   eventLog |-> eventLog])
               done == calls[c].i + 1 = Len(fetched)
           IN  /\ pageEvents' = st.events
               /\ mutexStates' = st.mutexStates
               /\ semaphoreStates' = st.semaphoreStates
               /\ eventLog' = st.eventLog
               /\ calls' = [calls EXCEPT ![c].i = @ + 1,
                                         ![c].pc = IF done THEN "done" ELSE @]
               /\ isRunning' = IF done THEN FALSE ELSE isRunning
        /\ UNCHANGED <<normalizerVars, timelineVars, projectorVars, wireVars,
                       selectedScenario, pageSessionId, latest, reducerVars,
                       streamVars, effectVars, heapVars>>

\* the Reset button, rendered while sessionId is set
handleReset ==
    /\ pageSessionId # NULL
    /\ selectedScenario' = NULL
    /\ pageSessionId' = NULL
    /\ pageEvents' = <<>>
    /\ mutexStates' = <<>>
    /\ semaphoreStates' = <<>>
    /\ eventLog' = <<>>
    /\ latest' = 0
    /\ UNCHANGED <<normalizerVars, timelineVars, projectorVars, wireVars,
                   isRunning, calls, reducerVars, streamVars, effectVars,
                   heapVars>>

SyncNext ==
    \/ RunScenario
    \/ RunResponse
    \/ EventsResponse
    \/ Animate
    \/ handleReset

SyncSpec == Init /\ [][SyncNext]_vars

----------------------------------------------------------------------------
(* normalizeEvent as a function of any value a caller can hand to it *)

RawKinds == {UNDEF, NULL, "coroutine.created", "JobStateChanged", "custom.kind"}

RawTypes == {UNDEF, NULL, "CoroutineCreated", "CoroutineBodyCompleted",
             "ThreadAssigned", "JobStateChanged", "SomethingNew"}

RawRecords ==
    { [BaseEvent(k, c) EXCEPT !.type = t, !.label = l] :
      k \in RawKinds, t \in RawTypes, c \in {"A", "B"}, l \in Labels }

RawValues ==
    { JsObject(r) : r \in RawRecords } \cup {JsNull, JsUndefined, JsNumber}

Normalize ==
    \E v \in RawValues :
        /\ arg' = v
        /\ normalized' = normalizeEventCall(v)
        /\ UNCHANGED <<reducerVars, streamVars, effectVars, heapVars,
                       timelineVars, projectorVars, pageVars>>

NormalizerNext == Normalize

NormalizerSpec == Init /\ [][NormalizerNext]_vars

----------------------------------------------------------------------------
(* Timelines as a state machine: the mock generator with its own list of   *)
(* events, and the same computation over any list of lifecycle events of   *)
(* one coroutine, each result handed to useTimelineStats.                  *)

\* Date.now() at the call
BaseTimes == {0, 1000}

\* time between two events of a coroutine
Gaps == {0, 50, 100}

TimelineKinds == { eventSequence[i] : i \in 1..Len(eventSequence) }

MockTimeline ==
    \E coroutineId \in {"A", "B"}, baseTime \in BaseTimes :
        /\ timeline' = generateMockCoroutineTimeline(coroutineId, baseTime)
        /\ timelineStats' = useTimelineStats(timeline')
        /\ UNCHANGED <<reducerVars, streamVars, effectVars, heapVars,
                       normalizerVars, projectorVars, pageVars>>

\* the timeline of the events so far and one more event
ExtendTimeline ==
    \E kind \in TimelineKinds, gap \in Gaps :
        LET n == Len(timeline.events)
            before == [i \in 1..n |->
                          [timeline.events[i] EXCEPT !.duration = NoNumber]]
            timestamp == IF n = 0 THEN 0
                         ELSE timeline.events[n].timestamp + gap
        IN  /\ n < MaxEvents
            /\ timeline' = TimelineOf("A", Append(before,
                                TimelineEvent(n, timestamp, kind)))
            /\ timelineStats' = useTimelineStats(timeline')
            /\ UNCHANGED <<reducerVars, streamVars, effectVars, heapVars,
                           normalizerVars, projectorVars, pageVars>>

TimelineNext == MockTimeline \/ ExtendTimeline

TimelineSpec == Init /\ [][TimelineNext]_vars

----------------------------------------------------------------------------
(* The projections as a state machine: the list grows by one node with a   *)
(* new id, in any order of the ids, and is projected again.                *)

ProjectorIds == Ids \cup {"D"}

ProjectorStates == {"ACTIVE", "COMPLETED"}

AddNode ==
    \E id \in ProjectorIds \ IdsOf(hierarchy),
       parentId \in ProjectorIds \cup {NULL},
       state \in ProjectorStates :
        /\ Len(hierarchy) < MaxNodes
        /\ hierarchy' = Append(hierarchy, FlatNode(id, parentId, state))
        /\ tree' = hierarchyListToTree(hierarchy')
        /\ hierarchyStats' = useHierarchyStats(hierarchy')
        /\ UNCHANGED <<reducerVars, streamVars, effectVars, heapVars,
                       normalizerVars, timelineVars, pageVars>>

ProjectorNext == AddNode

ProjectorSpec == Init /\ [][ProjectorNext]_vars

----------------------------------------------------------------------------
(* Properties of the reducer *)

\* C1 - Idempotence of apply: `nodes` is the result of applying `last` once
\* to a reachable map; applying the same event a second time gives the same
\* map. Every reachable map and every event kind is covered, including a
\* created(P) that arrives when P already has linked children.
C1_Idempotent ==
    last # NoEvent => handleEvent(last, nodes) = nodes

\* a created event has just been applied and some node has linked children,
\* so the re-delivery of created(P) over a linked P is among the cases
C1_Witness ==
    /\ last.kind = "coroutine.created"
    /\ Truthy(last.parentCoroutineId)
    /\ last.parentCoroutineId # last.coroutineId
    /\ Has(nodes, last.parentCoroutineId)
    /\ Get(nodes, last.parentCoroutineId).children = <<last.coroutineId>>

\* C2 - Monotonic terminality: once a node is COMPLETED, CANCELLED or
\* FAILED, no later event changes its state.
C2_TerminalStateIsFinal ==
    [][\A i \in DOMAIN nodes :
          nodes[i].state \in TerminalStates =>
              /\ Has(nodes', nodes[i].id)
              /\ Get(nodes', nodes[i].id).state = nodes[i].state]_vars

\* the hierarchy of a map: its node set, each parentId, each children list
Hierarchy(M) ==
    [id \in Keys(M) |->
        [parentId |-> Get(M, id).parentId, children |-> Get(M, id).children]]

\* C3 - Order tolerance: from the same map, created(child, parent=P) then
\* created(P) gives the same hierarchy as created(P) then
\* created(child, parent=P), and P's children list contains child.
C3_OrderTolerant ==
    \A c \in Ids, p \in Ids :
        c # p =>
            LET childFirst == Fold(<<CreatedOf(c, p), CreatedOf(p, NULL)>>, nodes)
                parentFirst == Fold(<<CreatedOf(p, NULL), CreatedOf(c, p)>>, nodes)
            IN  /\ Hierarchy(childFirst) = Hierarchy(parentFirst)
                /\ Includes(Get(childFirst, p).children, c)

\* C4 - Defensive lazy creation: after an event of a handled kind other
\* than created has been applied, the map holds a node with the id the
\* event names.
C4_LazyCreation ==
    last.kind \in HandledNonCreatedKinds => Has(nodes, last.coroutineId)

\* C5 - Unresolved parent held as temporary root: every node whose parentId
\* names no node of the map is returned by getRootNodes, for as long as the
\* parent is absent.
C5_TemporaryRoot ==
    \A i \in DOMAIN nodes :
        (Truthy(nodes[i].parentId) /\ ~Has(nodes, nodes[i].parentId)) =>
            Includes(getRootNodes(nodes), nodes[i])

\* the state of node a after the events es are applied to the current map
StateAfterEvents(a, es) == Get(Fold(es, nodes), a).state

\* C6 as claimed - for a node A, after body-completed(A),
\* created(B, parent=A), created(C, parent=A) the state of A is
\* WAITING_FOR_CHILDREN, and after the further completed(B), completed(C),
\* JobStateChanged(A, isCompleted) it is COMPLETED.
C6_BodyCompletedFirst ==
    \A a \in Ids, b \in Ids, c \in Ids :
        (Cardinality({a, b, c}) = 3 /\ Has(nodes, a)) =>
            LET waiting == <<BaseEvent("coroutine.body-completed", a),
                             CreatedOf(b, a), CreatedOf(c, a)>>
                done == <<BaseEvent("coroutine.completed", b),
                          BaseEvent("coroutine.completed", c),
                          JobCompletedOf(a)>>
            IN  /\ StateAfterEvents(a, waiting) = "WAITING_FOR_CHILDREN"
                /\ StateAfterEvents(a, waiting \o done) = "COMPLETED"

\* C6 as amended - for a node A, after created(B, parent=A),
\* created(C, parent=A), body-completed(A) the state of A is
\* WAITING_FOR_CHILDREN, and after the further completed(B), completed(C),
\* JobStateChanged(A, isCompleted, not isCancelled) it is COMPLETED.
C6_WaitingForChildren ==
    \A a \in Ids, b \in Ids, c \in Ids :
        (Cardinality({a, b, c}) = 3 /\ Has(nodes, a)) =>
            LET waiting == <<CreatedOf(b, a), CreatedOf(c, a),
                             BaseEvent("coroutine.body-completed", a)>>
                done == <<BaseEvent("coroutine.completed", b),
                          BaseEvent("coroutine.completed", c),
                          JobCompletedOf(a)>>
            IN  /\ StateAfterEvents(a, waiting) = "WAITING_FOR_CHILDREN"
                /\ StateAfterEvents(a, waiting \o done) = "COMPLETED"

\* body-completed(A) has just been applied to A with the created children
\* B and C, and A waits for them
C6_Witness ==
    /\ last = BaseEvent("coroutine.body-completed", "A")
    /\ Has(nodes, "A") /\ Has(nodes, "B") /\ Has(nodes, "C")
    /\ Get(nodes, "A").children = <<"B", "C">>
    /\ Get(nodes, "B").state = "CREATED"
    /\ Get(nodes, "C").state = "CREATED"
    /\ Get(nodes, "A").state = "WAITING_FOR_CHILDREN"

\* C7 - parentId immutability: no event changes the parentId of a node
\* that is already in the map.
C7_ParentIdImmutable ==
    [][\A i \in DOMAIN nodes :
          /\ Has(nodes', nodes[i].id)
          /\ Get(nodes', nodes[i].id).parentId = nodes[i].parentId]_vars

\* the state the priority isCancelled > isCompleted > (isActive and
\* childrenCount > 0) > isActive assigns
PriorityState(e, state) ==
    IF e.isCancelled THEN "CANCELLED"
    ELSE IF e.isCompleted THEN "COMPLETED"
    ELSE IF e.isActive /\ e.childrenCount > 0 THEN "WAITING_FOR_CHILDREN"
    ELSE IF e.isActive THEN "ACTIVE"
    ELSE state

\* C19 - JobStateChanged priority: a JobStateChanged event applied to an
\* existing node sets its state to CANCELLED if isCancelled, else COMPLETED
\* if isCompleted, else WAITING_FOR_CHILDREN if isActive and
\* childrenCount > 0, else ACTIVE if isActive, else leaves it unchanged.
C19_JobStatePriority ==
    [][(/\ steps' = steps + 1
        /\ last'.kind = "JobStateChanged"
        /\ Has(nodes, last'.coroutineId)) =>
           /\ Has(nodes', last'.coroutineId)
           /\ Get(nodes', last'.coroutineId).state =
                  PriorityState(last', Get(nodes, last'.coroutineId).state)]_vars

\* some id of the children list is the id of a node of M in one of the
\* states CREATED, ACTIVE, SUSPENDED
SomeChildRunning(M, children) ==
    \E i \in 1..Len(children), j \in 1..Len(M) :
        /\ M[j].id = children[i]
        /\ M[j].state \in {"CREATED", "ACTIVE", "SUSPENDED"}

\* C20 - body-completed rule: body-completed(A) applied to an existing
\* node A sets A's state to WAITING_FOR_CHILDREN if an id of A.children
\* maps to a node in state CREATED, ACTIVE or SUSPENDED, leaves the state
\* as it was otherwise, and changes no other field of A.
C20_BodyCompleted ==
    [][(/\ steps' = steps + 1
        /\ last'.kind = "coroutine.body-completed"
        /\ Has(nodes, last'.coroutineId)) =>
           LET A == Get(nodes, last'.coroutineId)
           IN  /\ Has(nodes', A.id)
               /\ Get(nodes', A.id) =
                      [A EXCEPT !.state =
                          IF SomeChildRunning(nodes, A.children)
                          THEN "WAITING_FOR_CHILDREN" ELSE A.state]]_vars

\* body-completed(A) was applied while a child of A was still CREATED
C20_Witness ==
    /\ last.kind = "coroutine.body-completed"
    /\ Has(nodes, last.coroutineId)
    /\ Get(nodes, last.coroutineId).state = "WAITING_FOR_CHILDREN"
    /\ \E j \in 1..Len(nodes) :
           /\ nodes[j].parentId = last.coroutineId
           /\ nodes[j].id # last.coroutineId
           /\ nodes[j].state = "CREATED"
           /\ Get(nodes, last.coroutineId).children = <<nodes[j].id>>

\* the state a terminal event names
TerminalStateOf(kind) ==
    CASE kind = "coroutine.completed" -> "COMPLETED"
      [] kind = "coroutine.cancelled" -> "CANCELLED"
      [] kind = "coroutine.failed" -> "FAILED"

\* C21 - Terminal events: completed(X), cancelled(X) or failed(X) applied
\* to an existing node X sets X.state to COMPLETED, CANCELLED or FAILED,
\* completedAtNanos to the timestamp of the event, activeChildrenIds to
\* the empty list and activeChildrenCount to 0.
C21_TerminalEvent ==
    [][(/\ steps' = steps + 1
        /\ last'.kind \in {"coroutine.completed", "coroutine.cancelled",
                           "coroutine.failed"}
        /\ Has(nodes, last'.coroutineId)) =>
           /\ Has(nodes', last'.coroutineId)
           /\ LET X == Get(nodes', last'.coroutineId)
              IN  /\ X.state = TerminalStateOf(last'.kind)
                  /\ X.completedAtNanos = last'.tsNanos
                  /\ X.activeChildrenIds = <<>>
                  /\ X.activeChildrenCount = 0]_vars

\* cancelled(X) with a timestamp later than X's creation was applied to a
\* node that had been told to wait for children
C21_Witness ==
    /\ last.kind = "coroutine.cancelled"
    /\ last.tsNanos = 200
    /\ Has(nodes, last.coroutineId)
    /\ Get(nodes, last.coroutineId).state = "CANCELLED"
    /\ Get(nodes, last.coroutineId).createdAtNanos = 100
    /\ Get(nodes, last.coroutineId).completedAtNanos = 200
    /\ Get(nodes, last.coroutineId).activeChildrenIds = <<>>

\* C22 - Active-children count: in every reachable state every node has
\* activeChildrenCount equal to the number of ids in its activeChildrenIds.
C22_ActiveChildrenCount ==
    \A i \in DOMAIN nodes :
        nodes[i].activeChildrenCount = Len(nodes[i].activeChildrenIds)

\* C23 - activeChildrenIds holds only children that are not terminal: once
\* a coroutine receives its terminal event (completed, cancelled, failed) no
\* node lists it in activeChildrenIds any more.
C23_ActiveChildrenNotTerminal ==
    [][(/\ last'.kind \in {"coroutine.completed", "coroutine.cancelled",
                            "coroutine.failed"}
        /\ Has(nodes, last'.coroutineId)) =>
           \A i \in DOMAIN nodes' :
               ~Includes(nodes'[i].activeChildrenIds, last'.coroutineId)]_vars

\* C24 - No propagation: an event other than coroutine.created leaves the
\* key set and every node other than the one it names unchanged; a
\* coroutine.created for C with parent P leaves every node other than C
\* unchanged, except that P (when in the map and not yet listing C) gets C
\* appended to its children and nothing else.
C24_NoPropagation ==
    [][steps' = steps + 1 =>
          /\ \A i \in DOMAIN nodes :
                 /\ i \in DOMAIN nodes'
                 /\ nodes'[i].id = nodes[i].id
                 /\ nodes[i].id # last'.coroutineId =>
                       \/ nodes'[i] = nodes[i]
                       \/ /\ last'.kind = "coroutine.created"
                          /\ nodes[i].id = last'.parentCoroutineId
                          /\ ~Includes(nodes[i].children, last'.coroutineId)
                          /\ nodes'[i] =
                                [nodes[i] EXCEPT !.children =
                                     Append(@, last'.coroutineId)]
          /\ last'.kind # "coroutine.created" => Len(nodes') = Len(nodes)]_vars

\* a failed child whose parent kept its state and its children
C24_Witness ==
    /\ last.kind = "coroutine.failed"
    /\ Len(nodes) = 2
    /\ Has(nodes, last.coroutineId)
    /\ Get(nodes, last.coroutineId).state = "FAILED"
    /\ Has(nodes, Get(nodes, last.coroutineId).parentId)
    /\ Get(nodes, last.coroutineId).parentId # last.coroutineId
    /\ Get(nodes, Get(nodes, last.coroutineId).parentId).state = "CREATED"
    /\ Get(nodes, Get(nodes, last.coroutineId).parentId).children
           = <<last.coroutineId>>

\* C26 - Completion stamp: in every reachable state a node's
\* completedAtNanos is set if and only if its state is COMPLETED, CANCELLED
\* or FAILED.
C26_CompletedAtIffTerminal ==
    \A i \in DOMAIN nodes :
        (nodes[i].completedAtNanos # NoNumber)
            <=> (nodes[i].state \in TerminalStates)

\* C27 - Parent/children link consistency: in every reachable state, every
\* id C in the children of a node P is a key of the map and the node C has
\* parentId = P; no children list holds an id twice; and no id is in the
\* children lists of two different nodes.
C27_LinkConsistency ==
    \A i \in DOMAIN nodes :
        LET P == nodes[i]
        IN  /\ \A j \in DOMAIN P.children :
                   /\ Has(nodes, P.children[j])
                   /\ Get(nodes, P.children[j]).parentId = P.id
                   /\ \A k \in DOMAIN P.children :
                          P.children[k] = P.children[j] => k = j
                   /\ \A q \in DOMAIN nodes :
                          Includes(nodes[q].children, P.children[j]) => q = i

----------------------------------------------------------------------------
(* Properties of the hooks *)

\* C8 - Snapshot atomicity: a reader that holds the Map from before a step
\* sees exactly the contents it saw when it got the Map, whatever steps
\* follow: no step changes the Map object, a node object or an array
\* reachable from it.
C8_SnapshotAtomic ==
    snap # 0 => DerefMap(heap, snap) = snapView

\* a node of the Map the reader holds has been updated by a later step
C8_Witness ==
    /\ snap # 0
    /\ cur # snap
    /\ \E i \in DOMAIN snapView :
          /\ Has(nodes, snapView[i].id)
          /\ Get(nodes, snapView[i].id) # snapView[i]

\* C9 - Delivery-order application: the events handed to handleEvent are
\* the delivered events in delivery order, each once; an event delivered
\* earlier (smaller position in the stream) is never applied after an event
\* delivered later.
C9_DeliveryOrder ==
    \A i \in DOMAIN applied : \A j \in DOMAIN applied :
        i < j => applied[i].seq < applied[j].seq

\* C10 - Session isolation: while the hook is given session B, every event
\* of the exposed list is an event of B, and every node of the map was
\* created by an event of that list.
C10_SessionIsolation ==
    Truthy(sessionId) =>
        /\ \A i \in DOMAIN events : events[i].sessionId = sessionId
        /\ \A n \in DOMAIN nodes :
              \E i \in DOMAIN events :
                  /\ events[i].kind = "coroutine.created"
                  /\ events[i].coroutineId = nodes[n].id
\* C25 - Replay convergence: after a pass of the effect over the events
\* array L, run on top of the map left by the passes over prefixes of L, the
\* map equals one fold of L over the empty map.
C25_ReplayConvergence ==
    ~stale => nodes = Fold(events, EmptyMap)

C25_Witness ==
    /\ ~stale
    /\ passes = 2
    /\ Len(applied) > Len(events)
    /\ Len(events) >= 3
    /\ \E i \in DOMAIN nodes : nodes[i].children # <<>>
    /\ \E i \in DOMAIN nodes : nodes[i].state = "WAITING_FOR_CHILDREN"

\* C28 - Every reducer kind is deliverable: an event of a kind the reducer
\* handles (coroutine.*, thread.assigned, DispatcherSelected,
\* JobStateChanged, WaitingForChildren) that the backend sent on the open
\* stream is eventually in the events list with that kind.
C28_HandledKindsDelivered ==
    \A k \in {"coroutine.created"} \cup HandledNonCreatedKinds :
        (\E i \in DOMAIN inflight :
             eventTypeToKind(inflight[i].data.type) = k)
            ~> (\E j \in DOMAIN events : events[j].kind = k)

----------------------------------------------------------------------------
(* Properties of the normalizer *)

\* C11: whatever value normalizeEvent is called with (an object without
\* kind and type, null or a non-object included), the call does not throw
\* and returns a record whose kind is neither null nor missing
C11_NormalizerTotal ==
    normalized.status # "none" =>
        /\ normalized.status = "returned"
        /\ normalized.value.tag = "object"
        /\ normalized.value.obj.kind \notin {NULL, UNDEF}

\* the fields of a record other than kind and type
OtherFields(r) == DOMAIN r \ {"kind", "type"}

----------------------------------------------------------------------------
(* Properties of the timeline *)

\* kinds and timestamps of the events of a timeline
Shape(evs) == [i \in 1..Len(evs) |-> <<evs[i].kind, evs[i].timestamp>>]

\* created@0, started@0, suspended@100, resumed@150, completed@200
LawExample ==
    << <<"coroutine.created", 0>>, <<"coroutine.started", 0>>,
       <<"coroutine.suspended", 100>>, <<"coroutine.resumed", 150>>,
       <<"coroutine.completed", 200>> >>

\* a suspended event directly followed by a resumed event
Paired(evs, i) ==
    /\ evs[i].kind = "coroutine.suspended"
    /\ i < Len(evs)
    /\ evs[i + 1].kind = "coroutine.resumed"

\* sum over the paired suspensions of (resumed - suspended)
RECURSIVE PairedTime(_, _)
PairedTime(evs, i) ==
    IF i > Len(evs) THEN 0
    ELSE (IF Paired(evs, i) THEN evs[i + 1].timestamp - evs[i].timestamp
          ELSE 0) + PairedTime(evs, i + 1)

\* C13: totalDuration is last minus first timestamp, suspendedTime the sum
\* of (following resumed - suspended) over the suspended events, activeTime
\* the rest; suspendedTime is never negative; the events created@0,
\* started@0, suspended@100, resumed@150, completed@200 give 50 suspended,
\* 150 active, 200 total, 75 and 25 percent
C13_TimelineLaw ==
    timeline # NoTimeline =>
        LET evs == timeline.events
        IN  /\ timeline.totalDuration
                   = evs[Len(evs)].timestamp - evs[1].timestamp
            /\ timeline.suspendedTime = PairedTime(evs, 1)
            /\ timeline.activeTime
                   = timeline.totalDuration - timeline.suspendedTime
            /\ timeline.suspendedTime >= 0
            /\ Shape(evs) = LawExample =>
                   /\ timelineStats.suspendedTime = 50
                   /\ timelineStats.activeTime = 150
                   /\ timelineStats.totalDuration = 200
                   /\ timelineStats.activePercent = 75
                   /\ timelineStats.suspendedPercent = 25

\* the durations the law assigns to the suspensions, in order
RECURSIVE PairedDurations(_, _)
PairedDurations(evs, i) ==
    IF i > Len(evs) THEN <<>>
    ELSE (IF Paired(evs, i)
          THEN <<evs[i + 1].timestamp - evs[i].timestamp>>
          ELSE <<>>) \o PairedDurations(evs, i + 1)

\* C14: a suspended event directly followed by a resumed event carries
\* duration = resumed.timestamp - suspended.timestamp, any other suspended
\* event carries none, and the average suspension duration is the average
\* of exactly these durations
C14_SuspensionDuration ==
    timeline # NoTimeline =>
        LET evs == timeline.events
            ds == PairedDurations(evs, 1)
        IN  /\ \A i \in 1..Len(evs) :
                   evs[i].kind = "coroutine.suspended" =>
                       evs[i].duration =
                           IF Paired(evs, i)
                           THEN evs[i + 1].timestamp - evs[i].timestamp
                           ELSE NoNumber
            /\ timelineStats.avgSuspensionDuration =
                   IF ds = <<>> THEN 0 ELSE SumSeq(ds) \div Len(ds)

----------------------------------------------------------------------------
(* Properties of the projections *)

\* C15: the forest of a list with distinct ids, flattened by
\* hierarchyTreeToList and projected again, is the same forest: same roots,
\* same nested children, same order, same node data
C15_TreeRoundTrip ==
    hierarchyListToTree(hierarchyTreeToList(tree)) = tree

\* a list that names a grandchild's parent before the root: the forest is
\* one root with a child and a grandchild
C15_Witness ==
    /\ Len(hierarchy) = 3
    /\ hierarchy[1].parentId = hierarchy[3].id
    /\ hierarchy[2].parentId = hierarchy[1].id
    /\ ~Truthy(hierarchy[3].parentId)
    /\ Len(tree) = 1
    /\ Len(tree[1].children) = 1
    /\ Len(tree[1].children[1].children) = 1
    /\ Len(hierarchyTreeToList(tree)) = 3

RECURSIVE SumCounts(_)
SumCounts(byState) ==
    IF DOMAIN byState = {} THEN 0
    ELSE LET x == CHOOSE y \in DOMAIN byState : TRUE
         IN  byState[x]
               + SumCounts([y \in DOMAIN byState \ {x} |-> byState[y]])

\* C16: for every list of nodes, the empty one included, stats() returns
\* a record in which the counts by state add up to the number of nodes,
\* which is also its total
C16_StatsSum ==
    /\ hierarchyStats.status = "returned"
    /\ SumCounts(hierarchyStats.value.byState) = Len(hierarchy)
    /\ hierarchyStats.value.total = Len(hierarchy)

\* the ids of S and of all nodes below them by parentId
RECURSIVE Below(_, _)
Below(L, S) ==
    LET more == S \cup { L[i].id : i \in { j \in 1..Len(L) :
                                              L[j].parentId \in S } }
    IN  IF more = S THEN S ELSE Below(L, more)

\* for every node of L with a parentId: if no node has that id, the node
\* is a root of the forest and the nodes below it are exactly the nodes
\* nested in it; otherwise it is no root
RootsAsClaimed(L, forest) ==
    \A i \in 1..Len(L) :
        LET node == L[i]
            rootsOfNode == { r \in 1..Len(forest) : forest[r].id = node.id }
        IN  Truthy(node.parentId) =>
                IF node.parentId \in IdsOf(L)
                THEN rootsOfNode = {}
                ELSE /\ Cardinality(rootsOfNode) = 1
                     /\ \A r \in rootsOfNode :
                            IdsOf(traverse(forest[r])) = Below(L, {node.id})

\* C17: a node whose parentId names no node of the list is a root of the
\* forest with all its descendants nested below it; a node whose parent is
\* in the list is in the children of that parent and not among the roots;
\* for each of the three forest builders
C17_TemporaryRoot ==
    /\ RootsAsClaimed(hierarchy, tree)
    /\ RootsAsClaimed(hierarchy, buildCoroutineTree(hierarchy))
    /\ RootsAsClaimed(hierarchy, useHierarchyTree(hierarchy))
    /\ \A i \in 1..Len(hierarchy) :
           hierarchy[i].parentId \in IdsOf(hierarchy) =>
               \E j \in 1..Len(Links(hierarchy).children[hierarchy[i].parentId]) :
                   Links(hierarchy).children[hierarchy[i].parentId][j]
                       = hierarchy[i].id

\* a list whose first node names an absent parent and has a child and a
\* grandchild
C17_Witness ==
    /\ Len(hierarchy) = 3
    /\ Truthy(hierarchy[1].parentId)
    /\ hierarchy[1].parentId \notin IdsOf(hierarchy)
    /\ hierarchy[2].parentId = hierarchy[3].id
    /\ hierarchy[3].parentId = hierarchy[1].id
    /\ Len(tree) = 1
    /\ tree[1].id = hierarchy[1].id
    /\ Len(tree[1].children) = 1
    /\ tree[1].children[1].children[1].id = hierarchy[2].id

\* C18: for every map the reducer produces, maps with a cycle of parentId
\* links or a node that is its own parent included, the depth computation
\* ends and stats() returns a record
C18_StatsTerminates ==
    useHierarchyStats(nodes).status = "returned"

\* C29 - Projected forest is a partition: for every list of nodes with
\* distinct ids, lists with a parentId cycle or a self-parent included, the
\* forests of hierarchyListToTree, buildCoroutineTree and useHierarchyTree
\* hold every node of the list exactly once, as a root or below a root.
C29_ForestPartition ==
    \A forest \in {tree, buildCoroutineTree(hierarchy),
                    useHierarchyTree(hierarchy)} :
        LET flat == hierarchyTreeToList(forest)
        IN  /\ Len(flat) = Len(hierarchy)
            /\ IdsOf(flat) = IdsOf(hierarchy)

----------------------------------------------------------------------------
(* Properties of the synchronization page *)

\* processEvent over a list of events, from the empty page state
RECURSIVE ProcessAll(_)
ProcessAll(evs) ==
    IF evs = <<>>
    THEN [events |-> <<>>, mutexStates |-> <<>>, semaphoreStates |-> <<>>,
          eventLog |-> <<>>]
    ELSE processEvent(evs[Len(evs)], ProcessAll(SubSeq(evs, 1, Len(evs) - 1)))

\* C30 - Sync-page runs do not interleave: in every reachable state the
\* events list and the mutex and semaphore maps are the fold of the events
\* animated so far of the run started last, and are empty after
\* handleReset until a new run starts.
C30_RunsDoNotInterleave ==
    LET shown == IF latest = 0 THEN <<>>
                 ELSE SubSeq(SessionEvents(calls[latest].scenario, latest),
                             1, calls[latest].i)
    IN  /\ pageEvents = shown
        /\ mutexStates = ProcessAll(shown).mutexStates
        /\ semaphoreStates = ProcessAll(shown).semaphoreStates

====
